---- MODULE Spec2Model ----
(***************************************************************************)
(* Model of src/email-counter.ts: the POST /api/count-emails handler and   *)
(* countEmails.  A collection is a finite sequence of documents, each       *)
(* document reduced to the state of its `email` field.  A request advances  *)
(* one await at a time: pc[r] names the driver call the request is waiting  *)
(* on.                                                                      *)
(***************************************************************************)
EXTENDS Integers, Sequences, FiniteSets, TLC

\* ---------------------------------------------------------------- bounds
NumReqs == 2
MaxDocs == 4

Reqs == 1..NumReqs

\* ------------------------------------------------------- document values
NoField == "<missing>"
NullValue == "<null>"
EmptyString == ""
Sentinel == "email_not_unlocked@domain.com"
RegularEmails == {"a@x.com", "b@x.com"}
EmailVals == {NoField, NullValue, EmptyString, Sentinel} \cup RegularEmails

Collections == UNION {[1..n -> EmailVals] : n \in 0..MaxDocs}

\* --------------------------------------------------- request body values
Undefined == "<undefined>"
FieldVals == {Undefined, "", "name"}
Bodies == [database_name : FieldVals, collection_name : FieldVals]
EnvUris == {Undefined, "", "mongodb://host"}

\* JavaScript's !x for the values a string-or-absent field can hold
Falsy(x) == x = Undefined \/ x = ""

\* ------------------------------------------------------- thrown values
None == [kind |-> "none"]
Error(m) == [kind |-> "Error", message |-> m]
NonError == [kind |-> "value"]
UriError == Error("MONGODB_URI environment variable is not set in .env file")
DriverThrows == {Error("driver failure"), Error(""), NonError}

MissingFieldsBody ==
  [error |-> "Missing required fields: database_name and collection_name are required"]

\* ------------------------------------------------- MongoDB query results
\* {email: {$ne: Sentinel}}: also matches a document without the field
NotLocked(v) == v # Sentinel

\* {email: Sentinel}
IsLocked(v) == v = Sentinel

\* {$or: [{email: {$exists: false}}, {email: null}, {email: ''}]};
\* {email: null} matches a null field and a missing field
IsEmpty(v) == v = NoField \/ (v = NullValue \/ v = NoField) \/ v = EmptyString

\* collection.countDocuments({})
totalDocuments(c) == Len(c)

\* collection.distinct('email', {email: {$ne: Sentinel}}): the values of the
\* field over the matching documents; a document without the field has none
uniqueEmailsUnfiltered(c) == {c[i] : i \in 1..Len(c)} \ {NoField}
uniqueEmails(c) == {c[i] : i \in {j \in 1..Len(c) : NotLocked(c[j])}} \ {NoField}

\* collection.countDocuments({email: Sentinel})
lockedEmails(c) == Cardinality({i \in 1..Len(c) : IsLocked(c[i])})

\* collection.countDocuments({$or: [...]})
emptyEmailsNoBlank(c) == Cardinality({i \in 1..Len(c) : c[i] \in {NoField, NullValue}})
emptyEmails(c) == Cardinality({i \in 1..Len(c) : IsEmpty(c[i])})

\* $group with _id: '$email': a missing field groups under null
GroupKey(v) == IF v = NoField THEN NullValue ELSE v

\* the groups of the documents that pass the first $match, and their $sum: 1
GroupKeys(c) == {GroupKey(c[i]) : i \in {j \in 1..Len(c) : NotLocked(c[j])}}
GroupCount(c, k) == Cardinality({i \in {j \in 1..Len(c) : NotLocked(c[j])} : GroupKey(c[i]) = k})

\* collection.aggregate(duplicateEmailPipeline).toArray(): the groups with count > 1
duplicateEmailResultsGt2(c) ==
  {[id |-> k, count |-> GroupCount(c, k)] : k \in {k \in GroupKeys(c) : GroupCount(c, k) > 2}}
duplicateEmailResults(c) ==
  {[id |-> k, count |-> GroupCount(c, k)] : k \in {k \in GroupKeys(c) : GroupCount(c, k) > 1}}

\* the object countEmails returns, from the values the five reads resolved to
EmailCounts(res) ==
  [total_documents |-> res[1],
   actual_amount |-> Cardinality(res[2]),
   enu_count |-> res[3],
   duplicate_emails |-> Cardinality(res[5]),
   empty_emails |-> res[4]]

\* --------------------------------------------------------------- state
VARIABLES uri, coll, pc, body, tries, issued, results, thrown,
          clients, closeCalls, closeResult, connOpen, responses

vars == <<uri, coll, pc, body, tries, issued, results, thrown,
          clients, closeCalls, closeResult, connOpen, responses>>

ReadOps == <<"findOne", "countTotal", "distinct", "countLocked", "countEmpty", "aggregate">>
ReadOpSet == {ReadOps[i] : i \in 1..Len(ReadOps)}
OpIndex(op) == CHOOSE i \in 1..Len(ReadOps) : ReadOps[i] = op

\* configured on the client: retryReads: true
retryReads == TRUE

\* the value a read resolves to
ReadResult(op, c) ==
  CASE op = "countTotal" -> totalDocuments(c)
    [] op = "distinct" -> uniqueEmails(c)
    [] op = "countLocked" -> lockedEmails(c)
    [] op = "countEmpty" -> emptyEmails(c)
    [] op = "aggregate" -> duplicateEmailResults(c)

InitReqs ==
  /\ pc = [r \in Reqs |-> "idle"]
  /\ body = [r \in Reqs |-> Undefined]
  /\ tries = [r \in Reqs |-> 0]
  /\ issued = [r \in Reqs |-> [op \in ReadOpSet |-> 0]]
  /\ results = [r \in Reqs |-> <<>>]
  /\ thrown = [r \in Reqs |-> None]
  /\ clients = [r \in Reqs |-> 0]
  /\ closeCalls = [r \in Reqs |-> 0]
  /\ closeResult = [r \in Reqs |-> "none"]
  /\ connOpen = [r \in Reqs |-> FALSE]
  /\ responses = [r \in Reqs |-> <<>>]

\* ------------------------------------------------------------- handler
\* !database_name || !collection_name
MissingFieldsBoth(b) == Falsy(b.database_name) /\ Falsy(b.collection_name)
MissingFields(b) == Falsy(b.database_name) \/ Falsy(b.collection_name)

\* error instanceof Error ? error.message : 'An unknown error occurred'
ErrorMessage(e) == IF e.kind = "Error" THEN e.message ELSE "An unknown error occurred"

\* the catch block's response
Catch(e) == [status |-> 500, body |-> [error |-> ErrorMessage(e)]]

Respond(r, resp) == responses' = [responses EXCEPT ![r] = Append(@, resp)]

\* An exception leaves the try block: the finally block calls client.close()
LeaveTryNoClose(r, e) ==
  /\ thrown' = [thrown EXCEPT ![r] = e]
  /\ pc' = [pc EXCEPT ![r] = "done"]
  /\ tries' = [tries EXCEPT ![r] = 0]
  /\ Respond(r, Catch(e))
  /\ UNCHANGED closeCalls
LeaveTry(r, e) ==
  /\ thrown' = [thrown EXCEPT ![r] = e]
  /\ pc' = [pc EXCEPT ![r] = "close"]
  /\ tries' = [tries EXCEPT ![r] = 0]
  /\ closeCalls' = [closeCalls EXCEPT ![r] = @ + 1]
  /\ UNCHANGED responses

\* The handler up to its first await: validation, the MONGODB_URI test, the
\* client's construction and the call of client.connect()
HandleRequest(r, b) ==
  /\ pc[r] = "idle"
  /\ body' = [body EXCEPT ![r] = b]
  /\ IF MissingFields(b)
       THEN /\ Respond(r, [status |-> 400, body |-> MissingFieldsBody])
            /\ pc' = [pc EXCEPT ![r] = "done"]
            /\ UNCHANGED <<thrown, clients>>
       ELSE IF Falsy(uri)
         THEN /\ thrown' = [thrown EXCEPT ![r] = UriError]
              /\ Respond(r, Catch(UriError))
              /\ pc' = [pc EXCEPT ![r] = "done"]
              /\ UNCHANGED clients
         ELSE /\ clients' = [clients EXCEPT ![r] = @ + 1]
              /\ pc' = [pc EXCEPT ![r] = "connect"]
              /\ UNCHANGED <<thrown, responses>>
  /\ UNCHANGED <<uri, coll, tries, issued, results, closeCalls, closeResult, connOpen>>

\* the handler calls a read and awaits it
Issue(r, op) ==
  /\ pc' = [pc EXCEPT ![r] = op]
  /\ issued' = [issued EXCEPT ![r][op] = @ + 1]
  /\ tries' = [tries EXCEPT ![r] = 1]

\* await client.connect() resolves; collection.findOne is called
ConnectOk(r) ==
  /\ pc[r] = "connect"
  /\ connOpen' = [connOpen EXCEPT ![r] = TRUE]
  /\ Issue(r, "findOne")
  /\ UNCHANGED <<uri, coll, body, results, thrown, clients, closeCalls, closeResult, responses>>

\* await client.connect() rejects
ConnectFail(r, e) ==
  /\ pc[r] = "connect"
  /\ LeaveTry(r, e)
  /\ UNCHANGED <<uri, coll, body, issued, results, clients, closeResult, connOpen>>

\* a read resolves: its value is kept and the next read is called; after the
\* aggregate the return value is ready and the finally block calls close
ReadOk(r) ==
  /\ pc[r] \in ReadOpSet
  /\ results' = [results EXCEPT ![r] =
                   IF pc[r] = "findOne" THEN @ ELSE Append(@, ReadResult(pc[r], coll))]
  /\ IF pc[r] # "aggregate"
       THEN /\ Issue(r, ReadOps[OpIndex(pc[r]) + 1])
            /\ UNCHANGED closeCalls
       ELSE /\ pc' = [pc EXCEPT ![r] = "close"]
            /\ tries' = [tries EXCEPT ![r] = 0]
            /\ closeCalls' = [closeCalls EXCEPT ![r] = @ + 1]
            /\ UNCHANGED issued
  /\ UNCHANGED <<uri, coll, body, thrown, clients, closeResult, connOpen, responses>>

\* a read rejects
ReadFailReissue(r, e) ==
  /\ pc[r] \in ReadOpSet
  /\ Issue(r, pc[r])
  /\ UNCHANGED <<uri, coll, body, results, thrown, clients, closeCalls, closeResult,
                 connOpen, responses>>
ReadFail(r, e) ==
  /\ pc[r] \in ReadOpSet
  /\ LeaveTry(r, e)
  /\ UNCHANGED <<uri, coll, body, issued, results, clients, closeResult, connOpen>>

\* retryReads: true: the driver sends a read that failed with a retryable
\* error a second time, without the handler seeing the first failure
DriverRetry(r) ==
  /\ pc[r] \in ReadOpSet
  /\ retryReads
  /\ tries[r] = 1
  /\ tries' = [tries EXCEPT ![r] = 2]
  /\ UNCHANGED <<uri, coll, pc, body, issued, results, thrown, clients, closeCalls,
                 closeResult, connOpen, responses>>

\* await client.close() resolves: countEmails returns or rethrows, and the
\* handler sends res.json(counts) or the catch block's response
CloseOk(r) ==
  /\ pc[r] = "close"
  /\ closeResult' = [closeResult EXCEPT ![r] = "ok"]
  /\ connOpen' = [connOpen EXCEPT ![r] = FALSE]
  /\ pc' = [pc EXCEPT ![r] = "done"]
  /\ IF thrown[r] = None
       THEN Respond(r, [status |-> 200, body |-> EmailCounts(results[r])])
       ELSE Respond(r, Catch(thrown[r]))
  /\ UNCHANGED <<uri, coll, body, tries, issued, results, thrown, clients, closeCalls>>

\* await client.close() rejects: its error replaces the pending return value
\* or exception; whether the connection was released is not known
CloseFailSwallowed(r, e, stillOpen) ==
  /\ pc[r] = "close"
  /\ closeResult' = [closeResult EXCEPT ![r] = "failed"]
  /\ connOpen' = [connOpen EXCEPT ![r] = @ /\ stillOpen]
  /\ pc' = [pc EXCEPT ![r] = "done"]
  /\ IF thrown[r] = None
       THEN Respond(r, [status |-> 200, body |-> EmailCounts(results[r])])
       ELSE Respond(r, Catch(thrown[r]))
  /\ UNCHANGED <<uri, coll, body, tries, issued, results, thrown, clients, closeCalls>>
CloseFail(r, e, stillOpen) ==
  /\ pc[r] = "close"
  /\ closeResult' = [closeResult EXCEPT ![r] = "failed"]
  /\ connOpen' = [connOpen EXCEPT ![r] = @ /\ stillOpen]
  /\ thrown' = [thrown EXCEPT ![r] = e]
  /\ pc' = [pc EXCEPT ![r] = "done"]
  /\ Respond(r, Catch(e))
  /\ UNCHANGED <<uri, coll, body, tries, issued, results, clients, closeCalls>>

Step(r) ==
  \/ \E b \in Bodies : HandleRequest(r, b)
  \/ ConnectOk(r)
  \/ \E e \in DriverThrows : ConnectFail(r, e)
  \/ ReadOk(r)
  \/ \E e \in DriverThrows : ReadFail(r, e)
  \/ DriverRetry(r)
  \/ CloseOk(r)
  \/ \E e \in DriverThrows, stillOpen \in BOOLEAN : CloseFail(r, e, stillOpen)

\* requests served concurrently against one collection
SampleColls == {<<>>, <<"a@x.com", Sentinel, NoField>>}
Init == uri \in EnvUris /\ coll \in SampleColls /\ InitReqs
Next == \E r \in Reqs : Step(r)
Spec == Init /\ [][Next]_vars

\* one request against every collection up to MaxDocs documents
InitStats == uri \in EnvUris /\ coll \in Collections /\ InitReqs
NextStats == Step(1)
SpecStats == InitStats /\ [][NextStats]_vars

\* ===================================================================
\* Properties
\* ===================================================================
Sent(r) == Len(responses[r]) > 0
Resp(r) == responses[r][1]
Ok200(r) == pc[r] = "done" /\ Sent(r) /\ Resp(r).status = 200
Lacks(x) == x \in {Undefined, ""}
ValidBody(r) == pc[r] # "idle" /\ ~Lacks(body[r].database_name) /\ ~Lacks(body[r].collection_name)
DocValues == {coll[i] : i \in 1..Len(coll)}
NumDocs(S) == Cardinality({i \in 1..Len(coll) : coll[i] \in S})
IsNotSentinel(v) == v # Sentinel
\* what countEmails returns for collection c when nothing fails
CountsOf(c) ==
  EmailCounts(<<totalDocuments(c), uniqueEmails(c), lockedEmails(c), emptyEmails(c),
                duplicateEmailResults(c)>>)

\* C1: a request whose body lacks database_name or collection_name (absent or
\* the empty string) is answered 400 with the fixed missing-fields body, and
\* for that request no client is created, no connect or close is attempted and
\* no read is issued, whatever MONGODB_URI is.
C1_MissingFields400 ==
  \A r \in Reqs :
    (pc[r] # "idle" /\ (Lacks(body[r].database_name) \/ Lacks(body[r].collection_name)))
      => /\ pc[r] = "done"
         /\ responses[r] = <<[status |-> 400, body |-> MissingFieldsBody]>>
         /\ clients[r] = 0
         /\ closeCalls[r] = 0
         /\ ~connOpen[r]
         /\ \A op \in ReadOpSet : issued[r][op] = 0

C1_Witness ==
  \E r \in Reqs :
    /\ pc[r] = "done"
    /\ body[r].database_name = "name"
    /\ body[r].collection_name = ""
    /\ uri = "mongodb://host"
    /\ Resp(r).status = 400

C3_ServerErrorNonEmpty ==
  \A r \in Reqs :
    (pc[r] = "done" /\ ValidBody(r) /\ thrown[r] # None)
      => /\ Len(responses[r]) = 1
         /\ Resp(r).status = 500
         /\ Resp(r).body.error # ""

\* C4: a request is answered exactly once, when it is done and not before;
\* the answer is the 200 body with all five statistics exactly when connect,
\* the probe, the five reads and close all completed without error, and is
\* an error body with no statistic otherwise; a failed close gives 500.
C4_OneResponseNoPartial ==
  \A r \in Reqs :
    /\ Len(responses[r]) <= 1
    /\ (pc[r] = "done") <=> (Len(responses[r]) = 1)
    /\ pc[r] = "done" =>
         /\ Resp(r).status \in {200, 400, 500}
         /\ (Resp(r).status = 200) <=>
              /\ \A op \in ReadOpSet : issued[r][op] = 1
              /\ Len(results[r]) = 5
              /\ thrown[r] = None
              /\ closeResult[r] = "ok"
         /\ Resp(r).status = 200 =>
              /\ DOMAIN Resp(r).body = {"total_documents", "actual_amount", "enu_count",
                                        "duplicate_emails", "empty_emails"}
              /\ Resp(r).body.total_documents = Len(coll)
         /\ Resp(r).status # 200 => DOMAIN Resp(r).body = {"error"}
         /\ closeResult[r] = "failed" => Resp(r).status = 500

C4_Witness ==
  \E r \in Reqs :
    /\ pc[r] = "done"
    /\ Len(results[r]) = 5
    /\ closeResult[r] = "failed"
    /\ Resp(r).status = 500

\* C5 (as claimed): for every N >= 1 records all carrying one regular email,
\* the result is total N, actual 1, enu 0, duplicates 1, empty 0.
C5_SameEmailAnyN ==
  \A r \in Reqs :
    (Ok200(r) /\ Len(coll) >= 1 /\ \E e \in RegularEmails : DocValues = {e})
      => Resp(r).body = [total_documents |-> Len(coll), actual_amount |-> 1, enu_count |-> 0,
                         duplicate_emails |-> 1, empty_emails |-> 0]

\* C5 (amended): the same for every N >= 2; for N = 1 duplicate_emails is 0
\* and the other four are as claimed.
C5_SameEmailFromTwo ==
  \A r \in Reqs :
    (Ok200(r) /\ Len(coll) >= 1 /\ \E e \in RegularEmails : DocValues = {e})
      => Resp(r).body = [total_documents |-> Len(coll), actual_amount |-> 1, enu_count |-> 0,
                         duplicate_emails |-> IF Len(coll) >= 2 THEN 1 ELSE 0,
                         empty_emails |-> 0]

C5_Witness ==
  \E r \in Reqs :
    /\ Ok200(r)
    /\ Len(coll) >= 3
    /\ DocValues = {"a@x.com"}
    /\ Resp(r).body.duplicate_emails = 1

\* C6: actual_amount is the number of distinct non-empty, non-sentinel email
\* values; records whose email is absent, null or "" add nothing to it.
C6_ActualAmountNonEmpty ==
  \A r \in Reqs :
    Ok200(r) => Resp(r).body.actual_amount = Cardinality(DocValues \cap RegularEmails)

\* C7: enu_count is the number of records whose email is the sentinel, and
\* the sentinel records change nothing else but total_documents: the other
\* three statistics are those of the collection without its sentinel records.
C7_SentinelOnlyInEnuCount ==
  \A r \in Reqs :
    Ok200(r) =>
      LET rest == CountsOf(SelectSeq(coll, IsNotSentinel))
      IN  /\ Resp(r).body.enu_count = NumDocs({Sentinel})
          /\ Resp(r).body.total_documents = rest.total_documents + NumDocs({Sentinel})
          /\ Resp(r).body.actual_amount = rest.actual_amount
          /\ Resp(r).body.duplicate_emails = rest.duplicate_emails
          /\ Resp(r).body.empty_emails = rest.empty_emails
          /\ rest.enu_count = 0

C7_Witness ==
  \E r \in Reqs :
    /\ Ok200(r)
    /\ NumDocs({Sentinel}) >= 2
    /\ NumDocs(RegularEmails) >= 1
    /\ Resp(r).body.enu_count >= 2

\* C8: empty_emails is the number of records whose email is absent, null or
\* the empty string, each counted once, and no other record is counted.
C8_EmptyCountsThreeForms ==
  \A r \in Reqs :
    Ok200(r) => Resp(r).body.empty_emails = NumDocs({NoField, NullValue, EmptyString})

C8_Witness ==
  \E r \in Reqs :
    /\ Ok200(r)
    /\ {NoField, NullValue, EmptyString} \subseteq DocValues
    /\ DocValues \cap RegularEmails # {}
    /\ Resp(r).body.empty_emails = 3

C10_DuplicatesWithinDistinct ==
  \A r \in Reqs :
    Ok200(r) => Resp(r).body.duplicate_emails <= Resp(r).body.actual_amount

====
